---- MODULE Spec2Model ----
(***************************************************************************)
(* Model of app.py (intervAI): the Streamlit page flow                     *)
(* home -> generating -> test -> evaluating -> result -> home, the role    *)
(* validator, the question generator's reply parsing and the local scorer. *)
(*                                                                         *)
(* One action is one run of the script (Streamlit re-runs the whole file   *)
(* on every event and on every st.rerun()).  Replies of the external       *)
(* generation service are token sequences; the JSON they may contain is    *)
(* parsed by json_loads below.                                             *)
(***************************************************************************)
EXTENDS Integers, Sequences, FiniteSets, TLC

VARIABLES state, role, mcqs, answers, evaluation,
          role_input, clicked, reply, valid_ret, rendered,
          validated, generated

vars == <<state, role, mcqs, answers, evaluation,
          role_input, clicked, reply, valid_ret, rendered,
          validated, generated>>

(***************************************************************************)
(* Bounds of the model.                                                    *)
(***************************************************************************)
MaxRoleLen == 2

MaxReplyLen == 4

MaxSection == 1

MaxExtraLen == 2

(***************************************************************************)
(* Program constants.                                                      *)
(***************************************************************************)
n_domain == 10

n_comm == 10

NumOptions == 4

LowMax == 5

MedMin == 6

MedMax == 14

\* Python None (also JSON null) where an integer is expected.
NoneV == -1

\* A question object without an "answer" key.
Missing == -2

(***************************************************************************)
(* Text: a string is a sequence of tokens.  " " is whitespace, "p" is      *)
(* prose that is not JSON, "n" is the JSON literal null, "{" and "}" are   *)
(* braces, the other tokens are members of a JSON object.                  *)
(***************************************************************************)
Max(a, b) == IF a > b THEN a ELSE b

Min(a, b) == IF a < b THEN a ELSE b

Range(s) == {s[i] : i \in 1..Len(s)}

SeqsUpTo(S, n) == UNION {[1..k -> S] : k \in 0..n}

\* str.strip(): drop leading and trailing whitespace.
RECURSIVE LStrip(_)
LStrip(s) == IF s # <<>> /\ Head(s) = " " THEN LStrip(Tail(s)) ELSE s

RECURSIVE RStrip(_)
RStrip(s) ==
  IF s # <<>> /\ s[Len(s)] = " " THEN RStrip(SubSeq(s, 1, Len(s) - 1)) ELSE s

Strip(s) == RStrip(LStrip(s))

\* str.find(c): 0-based index of the first occurrence, -1 when there is none.
Find(s, c) ==
  IF c \in Range(s)
  THEN (CHOOSE i \in 1..Len(s) : s[i] = c /\ \A j \in 1..(i-1) : s[j] # c) - 1
  ELSE -1

\* str.rfind(c): 0-based index of the last occurrence, -1 when there is none.
RFind(s, c) ==
  IF c \in Range(s)
  THEN (CHOOSE i \in 1..Len(s) : s[i] = c /\ \A j \in (i+1)..Len(s) : s[j] # c) - 1
  ELSE -1

\* A slice bound as Python normalises it: negative counts from the end,
\* and the result is clamped to 0..len.
PyIndex(k, n) == IF k < 0 THEN Max(k + n, 0) ELSE Min(k, n)

\* s[a:b]
PySlice(s, a, b) == SubSeq(s, PyIndex(a, Len(s)) + 1, PyIndex(b, Len(s)))

ValidMembers == {"vt", "vf", "vs"}

MemberTokens == ValidMembers \cup {"m"}

NoSpace(s) == SelectSeq(s, LAMBDA c : c # " ")

ParseError == [ok |-> FALSE, kind |-> "error", members |-> <<>>]

\* json.loads(s): whitespace between tokens is ignored; the text must be
\* exactly one JSON value, the literal null or an object "{" member* "}".
json_loads(s) ==
  LET u == NoSpace(s) IN
  IF u = <<"n">>
  THEN [ok |-> TRUE, kind |-> "null", members |-> <<>>]
  ELSE IF /\ Len(u) >= 2
          /\ u[1] = "{"
          /\ u[Len(u)] = "}"
          /\ \A i \in 2..(Len(u) - 1) : u[i] \in MemberTokens
       THEN [ok |-> TRUE, kind |-> "dict", members |-> SubSeq(u, 2, Len(u) - 1)]
       ELSE ParseError

(***************************************************************************)
(* ROLE VALIDATION                                                         *)
(***************************************************************************)
\* The value of a "valid" member: true, false, or a non-empty string.
MemberValue(tok) ==
  IF tok = "vt" THEN "True" ELSE IF tok = "vf" THEN "False" ELSE "str"

\* obj.get("valid", False): the last "valid" member of the object wins.
GetValid(members) ==
  LET idx == {i \in 1..Len(members) : members[i] \in ValidMembers} IN
  IF idx = {} THEN "False"
  ELSE MemberValue(members[CHOOSE i \in idx : \A j \in idx : j <= i])

\* Python truth value of what is_valid_role returns.
Truthy(v) == v \in {"True", "str"}

\* is_valid_role(text), given the outcome r of model.generate_content (text
\* only enters the prompt): r.raises when the call (or reading res.text)
\* raises, else r.text is the reply.  json.loads of a slice that starts with
\* "{" yields a dict or raises.
is_valid_role_failOpen(r) ==
  IF r.raises THEN "True"
  ELSE LET t == Strip(r.text)
           obj == json_loads(PySlice(t, Find(t, "{"), RFind(t, "}") + 1))
       IN IF obj.ok /\ obj.kind = "dict" THEN GetValid(obj.members) ELSE "True"

is_valid_role(r) ==
  IF r.raises THEN "False"
  ELSE LET t == Strip(r.text)
           obj == json_loads(PySlice(t, Find(t, "{"), RFind(t, "}") + 1))
       IN IF obj.ok /\ obj.kind = "dict" THEN GetValid(obj.members) ELSE "False"

(***************************************************************************)
(* QUESTION GENERATION                                                     *)
(***************************************************************************)
\* st.session_state.mcqs: None, or the parsed JSON object with the keys it has.
None_mcqs ==
  [kind |-> "None", keys |-> {}, domain |-> <<>>, communication |-> <<>>]

\* The Python value of a parsed reply: null is None; the member "m" stands
\* for the "domain"/"communication" content p of the reply.
ToData(parsed, p) ==
  IF parsed.kind = "null" THEN None_mcqs
  ELSE IF "m" \in Range(parsed.members) THEN p
       ELSE [kind |-> "dict", keys |-> {}, domain |-> <<>>, communication |-> <<>>]

\* generate_mcqs(role), given the outcome r of model.generate_content (role
\* only enters the prompt): the parsed JSON value it returns, or raised when
\* the exception leaves the function.
generate_mcqs_swallow(r) ==
  IF r.raises THEN [raised |-> TRUE, value |-> ParseError]
  ELSE LET text == Strip(r.text)
           direct == json_loads(text)
           sliced == json_loads(PySlice(text, Find(text, "{"), RFind(text, "}") + 1))
       IN IF direct.ok THEN [raised |-> FALSE, value |-> direct]
          ELSE IF sliced.ok THEN [raised |-> FALSE, value |-> sliced]
               ELSE [raised |-> FALSE,
                     value |-> [ok |-> TRUE, kind |-> "dict", members |-> <<>>]]

generate_mcqs(r) ==
  IF r.raises THEN [raised |-> TRUE, value |-> ParseError]
  ELSE LET text == Strip(r.text)
           direct == json_loads(text)
           sliced == json_loads(PySlice(text, Find(text, "{"), RFind(text, "}") + 1))
       IN IF direct.ok THEN [raised |-> FALSE, value |-> direct]
          ELSE IF sliced.ok THEN [raised |-> FALSE, value |-> sliced]
               ELSE [raised |-> TRUE, value |-> ParseError]

(***************************************************************************)
(* SCORER                                                                  *)
(***************************************************************************)
\* st.session_state.evaluation: None, or the dict evaluate_answers returns.
None_evaluation ==
  [kind |-> "None",
   scores |-> [technical |-> 0, communication |-> 0, total |-> 0],
   summary |-> "", strengths |-> "", improvements |-> ""]

\* The answers dict: a function from keys to selections.
EmptyDict == [k \in {} |-> NoneV]

\* f"q_{i}"
Key(i) == <<"q_", i>>

\* answers.get(key, None)
Get(d, key) == IF key \in DOMAIN d THEN d[key] ELSE NoneV

\* i < len(domain_qs)
InDomain_offByOne(i, nd) == i <= nd

InDomain(i, nd) == i < nd

\* selected is not None
IsSelected(selected) == selected # NoneV

ZeroCounters ==
  [tech_correct |-> 0, comm_correct |-> 0, tech_attempted |-> 0, comm_attempted |-> 0]

\* One iteration of the loop over enumerate(all_qs), at 0-based position i.
LoopBody(c, i, q, nd, ans) ==
  LET selected == Get(ans, Key(i))
      correct == q.answer
      c1 == IF IsSelected(selected)
            THEN IF InDomain(i, nd)
                 THEN [c EXCEPT !.tech_attempted = @ + 1]
                 ELSE [c EXCEPT !.comm_attempted = @ + 1]
            ELSE c
  IN IF selected = correct
     THEN IF InDomain(i, nd)
          THEN [c1 EXCEPT !.tech_correct = @ + 1]
          ELSE [c1 EXCEPT !.comm_correct = @ + 1]
     ELSE c1

\* The counters after positions 0..i-1 of all_qs.
RECURSIVE Loop(_, _, _, _)
Loop(all_qs, nd, ans, i) ==
  IF i = 0 THEN ZeroCounters
  ELSE LoopBody(Loop(all_qs, nd, ans, i - 1), i - 1, all_qs[i], nd, ans)

\* if tech_attempted == 0 and comm_attempted == 0
NoAttempt_byTotal(c) == c.tech_correct + c.comm_correct = 0

NoAttempt(c) == c.tech_attempted = 0 /\ c.comm_attempted = 0

NoAttemptSummary == "You did not attempt any questions."

NoAttemptStrengths == "No strengths detected because no questions were answered."

NoAttemptImprovements == "Please attempt the questions to receive proper feedback."

LowStrengths == "You attempted the test, which is a good start."

LowImprovements ==
  "Try revising fundamentals for this job role. Practice more MCQs to strengthen your basic understanding."

MediumStrengths ==
  "You have moderate understanding. Some answers show that you know important concepts."

MediumImprovements ==
  "Focus on weak areas and revisit key concepts. Try to improve accuracy by practicing domain-related questions."

HighStrengths ==
  "Strong understanding of the subject. Your answers show clarity and confidence in multiple areas."

HighImprovements ==
  "Keep refining your skills. Work on small gaps to reach expert level."

\* The if / elif / else on total: the strengths and improvements texts.
Feedback_noHigh(total) ==
  IF total <= LowMax
  THEN [strengths |-> LowStrengths, improvements |-> LowImprovements]
  ELSE [strengths |-> MediumStrengths, improvements |-> MediumImprovements]

Feedback_lowExclusive(total) ==
  IF total < LowMax
  THEN [strengths |-> LowStrengths, improvements |-> LowImprovements]
  ELSE IF MedMin <= total /\ total <= MedMax
       THEN [strengths |-> MediumStrengths, improvements |-> MediumImprovements]
       ELSE [strengths |-> HighStrengths, improvements |-> HighImprovements]

Feedback(total) ==
  IF total <= LowMax
  THEN [strengths |-> LowStrengths, improvements |-> LowImprovements]
  ELSE IF MedMin <= total /\ total <= MedMax
       THEN [strengths |-> MediumStrengths, improvements |-> MediumImprovements]
       ELSE [strengths |-> HighStrengths, improvements |-> HighImprovements]

\* f"You scored {total}/20 with {tech_correct}/10 in technical skills and ..."
Summary(total, tech_correct, comm_correct) ==
  "You scored " \o ToString(total) \o "/20 with " \o ToString(tech_correct)
  \o "/10 in technical skills and " \o ToString(comm_correct)
  \o "/10 in communication skills."

\* evaluate_answers(role, domain_qs, comm_qs, answers).  q["answer"] raises
\* KeyError for a question without that key.
evaluate_answers(for_role, domain_qs, comm_qs, ans) ==
  LET all_qs == domain_qs \o comm_qs
      c == Loop(all_qs, Len(domain_qs), ans, Len(all_qs))
      total == c.tech_correct + c.comm_correct
      fb == Feedback(total)
  IN IF \E i \in 1..Len(all_qs) : all_qs[i].answer = Missing
     THEN [raised |-> TRUE, result |-> None_evaluation]
     ELSE IF NoAttempt(c)
     THEN [raised |-> FALSE,
           result |-> [kind |-> "dict",
                       scores |-> [technical |-> 0, communication |-> 0, total |-> 0],
                       summary |-> NoAttemptSummary,
                       strengths |-> NoAttemptStrengths,
                       improvements |-> NoAttemptImprovements]]
     ELSE [raised |-> FALSE,
           result |-> [kind |-> "dict",
                       scores |-> [technical |-> c.tech_correct,
                                   communication |-> c.comm_correct,
                                   total |-> total],
                       summary |-> Summary(total, c.tech_correct, c.comm_correct),
                       strengths |-> fb.strengths,
                       improvements |-> fb.improvements]]

(***************************************************************************)
(* Inputs: what the user types and what the generation service replies.    *)
(***************************************************************************)
RoleChars == {" ", "a"}

RoleTexts == SeqsUpTo(RoleChars, MaxRoleLen)

ValidateTokens == {"{", "}", "p", " ", "vt", "vf", "vs"}

GenerateTokens == {"{", "}", "p", " ", "n", "m"}

Outcomes(tokens) ==
  {[raises |-> TRUE, text |-> <<>>]}
  \cup {[raises |-> FALSE, text |-> t] : t \in SeqsUpTo(tokens, MaxReplyLen)}

\* A generated question: renderable when it has "q" and four "options";
\* answer is its "answer" value (an option index, null, or no such key).
Questions ==
  {[renderable |-> TRUE, answer |-> a] : a \in {0, NoneV, Missing}}
  \cup {[renderable |-> FALSE, answer |-> 0]}

SectionSeqs(key, keys) ==
  IF key \in keys THEN SeqsUpTo(Questions, MaxSection) ELSE {<<>>}

KeyPatterns == {"zero", "cycle", "null", "mixed"}

\* The stored correct index of the question at 0-based position i.
KeyAt(k, i) ==
  IF k = "zero" THEN 0
  ELSE IF k = "cycle" THEN i % NumOptions
  ELSE IF k = "null" THEN NoneV
  ELSE IF i % 2 = 0 THEN NoneV ELSE NumOptions - 1

AnswerPatterns == {"zero", "cycle", "shift"}

\* The option selected at 0-based position i.
AnswerAt(a, i) ==
  IF a = "zero" THEN 0
  ELSE IF a = "cycle" THEN i % NumOptions
  ELSE (i + 1) % NumOptions

EvalQuestionSet(nd, nc, k) ==
  [kind |-> "dict", keys |-> {"domain", "communication"},
   domain |-> [i \in 1..nd |-> [renderable |-> TRUE, answer |-> KeyAt(k, i - 1)]],
   communication |->
     [j \in 1..nc |-> [renderable |-> TRUE, answer |-> KeyAt(k, nd + j - 1)]]]

\* The objects a reply's members can denote: small sets in which each key
\* may be missing, and a set of the requested size 10/10.
Payloads ==
  UNION {{[kind |-> "dict", keys |-> K, domain |-> d, communication |-> c] :
            d \in SectionSeqs("domain", K), c \in SectionSeqs("communication", K)} :
         K \in SUBSET {"domain", "communication"}}
  \cup {EvalQuestionSet(n_domain, n_comm, "cycle")}

\* The returned object has content only when it has a member "m".
PayloadsFor(out) ==
  IF ~out.raised /\ "m" \in Range(out.value.members) THEN Payloads
  ELSE {[kind |-> "dict", keys |-> {}, domain |-> <<>>, communication |-> <<>>]}

\* What a radio widget returns: None (index=None) or one of range(4).
Selections == {NoneV} \cup 0..(NumOptions - 1)

\* What the radios of a form over nd + nc questions return: every choice for
\* a small form; for a large one the first ad domain and the first ac
\* communication positions answered after a pattern, the others None.
SelectionsFor(nd, nc) ==
  IF nd <= MaxSection /\ nc <= MaxSection
  THEN [0..(nd + nc - 1) -> Selections]
  ELSE {[i \in 0..(nd + nc - 1) |->
           IF i < ad \/ (nd <= i /\ i < nd + ac) THEN AnswerAt(a, i) ELSE NoneV] :
        ad \in 0..nd, ac \in 0..nc, a \in AnswerPatterns}

(***************************************************************************)
(* What the last run's external call returned, as the facts about it that  *)
(* the properties below speak of.                                          *)
(***************************************************************************)
NoCall ==
  [call |-> "none", raises |-> FALSE, direct |-> FALSE, sliced |-> FALSE,
   has_object |-> FALSE]

\* The text from its first "{" to its last "}", when there is such a span.
HasBraceSpan(t) ==
  \E i, j \in 1..Len(t) :
     /\ i <= j /\ t[i] = "{" /\ t[j] = "}"
     /\ \A k \in 1..(i - 1) : t[k] # "{"
     /\ \A k \in (j + 1)..Len(t) : t[k] # "}"

BraceSpan(t) ==
  LET i == CHOOSE i \in 1..Len(t) : t[i] = "{" /\ \A k \in 1..(i - 1) : t[k] # "{"
      j == CHOOSE j \in 1..Len(t) : t[j] = "}" /\ \A k \in (j + 1)..Len(t) : t[k] # "}"
  IN SubSeq(t, i, j)

\* Some span {...} of the text is a JSON object.
HasParseableObject(t) ==
  \E i, j \in 1..Len(t) :
     /\ i <= j /\ t[i] = "{" /\ t[j] = "}"
     /\ json_loads(SubSeq(t, i, j)).ok

Observe(call, r) ==
  [call |-> call,
   raises |-> r.raises,
   direct |-> ~r.raises /\ json_loads(r.text).ok,
   sliced |-> ~r.raises /\ HasBraceSpan(r.text) /\ json_loads(BraceSpan(r.text)).ok,
   has_object |-> ~r.raises /\ HasParseableObject(r.text)]

\* Every outcome of one call of is_valid_role: what it returns, and what the
\* service replied.
ValidatorCalls ==
  {[ret |-> is_valid_role(r), obs |-> Observe("validate", r)] :
     r \in Outcomes(ValidateTokens)}

\* Every outcome of one call of generate_mcqs.
GeneratorCalls ==
  {[out |-> generate_mcqs(r), obs |-> Observe("generate", r)] :
     r \in Outcomes(GenerateTokens)}

(***************************************************************************)
(* SESSION STATE                                                           *)
(***************************************************************************)
Init ==
  /\ state = "home"
  /\ role = <<>>
  /\ mcqs = None_mcqs
  /\ answers = EmptyDict
  /\ evaluation = None_evaluation
  /\ role_input = <<>>
  /\ clicked = "none"
  /\ reply = NoCall
  /\ valid_ret = "NotCalled"
  /\ rendered = "role_form"
  /\ validated = {}
  /\ generated = FALSE

\* Locals of a run that makes no external call and handles no button.
NoLocals ==
  /\ clicked' = "none"
  /\ reply' = NoCall
  /\ valid_ret' = "NotCalled"

(***************************************************************************)
(* HOME PAGE                                                               *)
(***************************************************************************)
\* A run in home without a submission: the role form is shown.
RenderHome ==
  /\ state = "home"
  /\ rendered' = "role_form"
  /\ NoLocals
  /\ UNCHANGED <<state, role, mcqs, answers, evaluation, role_input,
                 validated, generated>>

\* The run after "Start Interview" with text_input value input; v is the
\* outcome of is_valid_role(role.strip()), called only for a non-empty role.
HomeSubmit_noValidation(input, v) ==
  /\ role_input' = input
  /\ clicked' = "start"
  /\ IF Strip(input) = <<>>
     THEN /\ rendered' = "role_form_warning"
          /\ reply' = NoCall
          /\ valid_ret' = "NotCalled"
          /\ UNCHANGED <<state, role, mcqs, answers, evaluation, validated, generated>>
     ELSE /\ reply' = v.obs
          /\ valid_ret' = v.ret
          /\ role' = Strip(input)
          /\ state' = "generating"
          /\ rendered' = "none"
          /\ validated' = IF Truthy(valid_ret') THEN {Strip(input)} ELSE validated
          /\ UNCHANGED <<mcqs, answers, evaluation, generated>>

HomeSubmit_storeFirst(input, v) ==
  /\ role_input' = input
  /\ clicked' = "start"
  /\ role' = Strip(input)
  /\ IF Strip(input) = <<>>
     THEN /\ rendered' = "role_form_warning"
          /\ reply' = NoCall
          /\ valid_ret' = "NotCalled"
          /\ UNCHANGED <<state, mcqs, answers, evaluation, validated, generated>>
     ELSE /\ reply' = v.obs
          /\ valid_ret' = v.ret
          /\ IF ~Truthy(valid_ret')
             THEN /\ rendered' = "role_form_error"
                  /\ UNCHANGED <<state, mcqs, answers, evaluation,
                                 validated, generated>>
             ELSE /\ state' = "generating"
                  /\ rendered' = "none"
                  /\ validated' = {Strip(input)}
                  /\ UNCHANGED <<mcqs, answers, evaluation, generated>>

HomeSubmit(input, v) ==
  /\ role_input' = input
  /\ clicked' = "start"
  /\ IF Strip(input) = <<>>
     THEN /\ rendered' = "role_form_warning"
          /\ reply' = NoCall
          /\ valid_ret' = "NotCalled"
          /\ UNCHANGED <<state, role, mcqs, answers, evaluation, validated, generated>>
     ELSE /\ reply' = v.obs
          /\ valid_ret' = v.ret
          /\ IF ~Truthy(valid_ret')
             THEN /\ rendered' = "role_form_error"
                  /\ UNCHANGED <<state, role, mcqs, answers, evaluation,
                                 validated, generated>>
             ELSE /\ role' = Strip(input)
                  /\ state' = "generating"
                  /\ rendered' = "none"
                  /\ validated' = {Strip(input)}
                  /\ UNCHANGED <<mcqs, answers, evaluation, generated>>

SubmitRole ==
  /\ state = "home"
  /\ rendered \in {"role_form", "role_form_warning", "role_form_error"}
  /\ \E input \in RoleTexts : \E v \in ValidatorCalls :
        HomeSubmit(input, v)

(***************************************************************************)
(* GENERATING MCQS                                                         *)
(***************************************************************************)
\* The run in generating, g being the outcome of generate_mcqs(role) and p
\* the content of the returned object; the role form is not rendered, so its
\* widget value is dropped.  An exception of generate_mcqs ends the run.
GeneratingPage_skipTest(g, p) ==
  LET data == g.out IN
  /\ reply' = g.obs
  /\ clicked' = "none"
  /\ valid_ret' = "NotCalled"
  /\ role_input' = <<>>
  /\ IF data.raised
     THEN /\ rendered' = "exception"
          /\ UNCHANGED <<state, role, mcqs, answers, evaluation, validated, generated>>
     ELSE /\ mcqs' = ToData(data.value, p)
          /\ state' = "evaluating"
          /\ rendered' = "none"
          /\ generated' = TRUE
          /\ UNCHANGED <<role, answers, evaluation, validated>>

GeneratingPage(g, p) ==
  LET data == g.out IN
  /\ reply' = g.obs
  /\ clicked' = "none"
  /\ valid_ret' = "NotCalled"
  /\ role_input' = <<>>
  /\ IF data.raised
     THEN /\ rendered' = "exception"
          /\ UNCHANGED <<state, role, mcqs, answers, evaluation, validated, generated>>
     ELSE /\ mcqs' = ToData(data.value, p)
          /\ state' = "test"
          /\ rendered' = "none"
          /\ generated' = TRUE
          /\ UNCHANGED <<role, answers, evaluation, validated>>

Generate ==
  /\ state = "generating"
  /\ \E g \in GeneratorCalls : \E p \in PayloadsFor(g.out) :
        GeneratingPage(g, p)

(***************************************************************************)
(* TEST PAGE                                                               *)
(***************************************************************************)
\* The number of leading questions of all_qs that render.
RECURSIVE RenderedPrefix(_)
RenderedPrefix(all_qs) ==
  IF all_qs = <<>> \/ ~Head(all_qs).renderable THEN 0
  ELSE 1 + RenderedPrefix(Tail(all_qs))

\* The body of the test page, the radio at position i returning sel[i]:
\* mcqs["domain"] and mcqs["communication"] raise on None or a missing key;
\* each question that renders writes its answers entry, the first that does
\* not render ends the run.
TestPage(m, ans, sel) ==
  IF m.kind = "None" \/ "domain" \notin m.keys \/ "communication" \notin m.keys
  THEN [raised |-> TRUE, answers |-> ans]
  ELSE LET all_qs == m.domain \o m.communication
           k == RenderedPrefix(all_qs)
           written == {Key(i) : i \in 0..(k - 1)}
       IN [raised |-> k < Len(all_qs),
           answers |-> [key \in DOMAIN ans \cup written |->
                          IF key \in written THEN sel[key[2]] ELSE ans[key]]]

NumQuestions(m) == Len(m.domain) + Len(m.communication)

\* A run in test without a submission: every radio returns None.
RenderTest ==
  LET run == TestPage(mcqs, answers, [i \in 0..(NumQuestions(mcqs) - 1) |-> NoneV]) IN
  /\ state = "test"
  /\ answers' = run.answers
  /\ rendered' = IF run.raised THEN "exception" ELSE "mcq_form"
  /\ NoLocals
  /\ UNCHANGED <<state, role, mcqs, evaluation, role_input, validated, generated>>

\* The run after "Submit Test", the radios returning the selections sel.
SubmitTest ==
  /\ state = "test"
  /\ rendered = "mcq_form"
  /\ \E sel \in SelectionsFor(Len(mcqs.domain), Len(mcqs.communication)) :
        /\ answers' = TestPage(mcqs, answers, sel).answers
        /\ state' = "evaluating"
        /\ clicked' = "submit"
        /\ rendered' = "none"
        /\ reply' = NoCall
        /\ valid_ret' = "NotCalled"
        /\ UNCHANGED <<role, mcqs, evaluation, role_input, validated, generated>>

(***************************************************************************)
(* EVALUATION                                                              *)
(***************************************************************************)
Evaluate_clearsMcqs ==
  LET ev == evaluate_answers(role, mcqs.domain, mcqs.communication, answers) IN
  /\ state = "evaluating"
  /\ NoLocals
  /\ IF ev.raised
     THEN /\ rendered' = "exception"
          /\ UNCHANGED <<state, evaluation, mcqs>>
     ELSE /\ evaluation' = ev.result
          /\ state' = "result"
          /\ rendered' = "none"
          /\ mcqs' = None_mcqs
  /\ UNCHANGED <<role, answers, role_input, validated, generated>>

Evaluate ==
  LET ev == evaluate_answers(role, mcqs.domain, mcqs.communication, answers) IN
  /\ state = "evaluating"
  /\ NoLocals
  /\ IF ev.raised
     THEN /\ rendered' = "exception"
          /\ UNCHANGED <<state, evaluation>>
     ELSE /\ evaluation' = ev.result
          /\ state' = "result"
          /\ rendered' = "none"
  /\ UNCHANGED <<role, mcqs, answers, role_input, validated, generated>>

(***************************************************************************)
(* RESULTS                                                                 *)
(***************************************************************************)
\* A run in result without a click: the scores and the retake button are shown.
RenderResult_rescores ==
  /\ state = "result"
  /\ rendered' = "result"
  /\ NoLocals
  /\ evaluation' =
       evaluate_answers(role, mcqs.domain, mcqs.communication, EmptyDict).result
  /\ UNCHANGED <<state, role, mcqs, answers, role_input, validated, generated>>

RenderResult ==
  /\ state = "result"
  /\ rendered' = "result"
  /\ NoLocals
  /\ UNCHANGED <<state, role, mcqs, answers, evaluation, role_input,
                 validated, generated>>

\* The run after "Retake / Try Another Role".
Retake_keepAnswers ==
  /\ state = "result"
  /\ rendered = "result"
  /\ state' = "home"
  /\ role' = <<>>
  /\ mcqs' = None_mcqs
  /\ evaluation' = None_evaluation
  /\ clicked' = "retake"
  /\ rendered' = "none"
  /\ reply' = NoCall
  /\ valid_ret' = "NotCalled"
  /\ validated' = {}
  /\ generated' = FALSE
  /\ UNCHANGED <<answers, role_input>>

Retake_keepMcqs ==
  /\ state = "result"
  /\ rendered = "result"
  /\ state' = "home"
  /\ role' = <<>>
  /\ answers' = EmptyDict
  /\ evaluation' = None_evaluation
  /\ clicked' = "retake"
  /\ rendered' = "none"
  /\ reply' = NoCall
  /\ valid_ret' = "NotCalled"
  /\ validated' = {}
  /\ generated' = FALSE
  /\ UNCHANGED <<mcqs, role_input>>

Retake ==
  /\ state = "result"
  /\ rendered = "result"
  /\ state' = "home"
  /\ role' = <<>>
  /\ answers' = EmptyDict
  /\ mcqs' = None_mcqs
  /\ evaluation' = None_evaluation
  /\ clicked' = "retake"
  /\ rendered' = "none"
  /\ reply' = NoCall
  /\ valid_ret' = "NotCalled"
  /\ validated' = {}
  /\ generated' = FALSE
  /\ UNCHANGED role_input

Next ==
  \/ RenderHome
  \/ SubmitRole
  \/ Generate
  \/ RenderTest
  \/ SubmitTest
  \/ Evaluate
  \/ RenderResult
  \/ Retake

Spec == Init /\ [][Next]_vars

\* The evaluating page has no widget: the run that follows the st.rerun() of
\* the submit run is the evaluation step, and it is always scheduled.
FairSpec == Spec /\ WF_vars(Evaluate)

(***************************************************************************)
(* The scorer on its own: evaluate_answers applied to question sets of     *)
(* the default size 10/10 and of other sizes, and to answer maps over      *)
(* them.                                                                   *)
(***************************************************************************)
EvalDomainLens == 0..MaxExtraLen \cup {n_domain}

EvalCommLens == 0..MaxExtraLen \cup {n_comm}

\* The first ad domain positions and the first ac communication positions
\* are answered; the others hold None (explicit) or have no entry.
EvalAnswerMap(nd, nc, ad, ac, a, explicit) ==
  LET answered == {i \in 0..(nd + nc - 1) : i < ad \/ (nd <= i /\ i < nd + ac)}
      present == IF explicit THEN 0..(nd + nc - 1) ELSE answered
  IN [key \in {Key(i) : i \in present} |->
        IF key[2] \in answered THEN AnswerAt(a, key[2]) ELSE NoneV]

InitEval ==
  /\ state = "evaluating"
  /\ role = <<"a">>
  /\ \E nd \in EvalDomainLens, nc \in EvalCommLens, k \in KeyPatterns :
        /\ mcqs = EvalQuestionSet(nd, nc, k)
        /\ \E ad \in 0..nd, ac \in 0..nc, a \in AnswerPatterns, explicit \in BOOLEAN :
              answers = EvalAnswerMap(nd, nc, ad, ac, a, explicit)
  /\ evaluation = None_evaluation
  /\ role_input = <<>>
  /\ clicked = "submit"
  /\ reply = NoCall
  /\ valid_ret = "NotCalled"
  /\ rendered = "none"
  /\ validated = {<<"a">>}
  /\ generated = TRUE

NextEval ==
  \/ Evaluate
  \/ RenderResult

SpecEval == InitEval /\ [][NextEval]_vars

(***************************************************************************)
(* Properties of the page flow (checked under Spec).                       *)
(***************************************************************************)
FlowEdges ==
  {<<"home", "generating">>, <<"generating", "test">>, <<"test", "evaluating">>,
   <<"evaluating", "result">>, <<"result", "home">>}

\* C1: the session starts in home, and every change of the session state
\* follows one of the edges home -> generating -> test -> evaluating ->
\* result -> home; no state is skipped and no edge is taken backwards.
C1_OnlyFlowEdges ==
  /\ state = "home"
  /\ [][state' # state => <<state, state'>> \in FlowEdges]_vars

\* A whole cycle has been walked: the retake run has brought the session
\* back to home.
C1_Witness == state = "home" /\ clicked = "retake"

\* C2: home -> generating is taken only by a submission whose role is
\* non-empty after trimming and which the validator accepted in that same
\* run, the stored role being the trimmed input; and every generation
\* request is made for the stored role, which passed the validator since the
\* last reset.
C2_ValidatedBeforeGenerating ==
  [][/\ (state = "home" /\ state' = "generating") =>
          /\ clicked' = "start"
          /\ Strip(role_input') # <<>>
          /\ role' = Strip(role_input')
          /\ reply'.call = "validate"
          /\ Truthy(valid_ret')
     /\ reply'.call = "generate" =>
          /\ state = "generating"
          /\ role # <<>>
          /\ role \in validated
          /\ role' = role]_vars

\* A generation request for a validated role has been made and has led to test.
C2_Witness ==
  /\ state = "test"
  /\ reply.call = "generate"
  /\ role # <<>>
  /\ role \in validated

\* C3: a submission whose role is empty after trimming, or which the
\* validator rejects, leaves the session in home and leaves the stored role,
\* question set, answer map and evaluation result unchanged.
C3_RejectedSubmissionChangesNothing ==
  [][(/\ state = "home"
      /\ clicked' = "start"
      /\ (Strip(role_input') = <<>> \/ ~Truthy(valid_ret')))
     => /\ state' = "home"
        /\ UNCHANGED <<role, mcqs, answers, evaluation>>]_vars

\* A non-empty role has been submitted and the validator has rejected it.
C3_Witness ==
  /\ state = "home"
  /\ clicked = "start"
  /\ Strip(role_input) # <<>>
  /\ reply.call = "validate"
  /\ ~Truthy(valid_ret)
  /\ rendered = "role_form_error"
  /\ role = <<>>

\* C4: the retake run is taken from result and leaves the session in home
\* with the role empty, the answer map empty, the question set absent and
\* the evaluation absent; and test is only ever entered from generating, by
\* a run that generates a question set for a role validated since the last
\* reset, no question set being stored before that run.
C4_RetakeClearsAndTestIsFresh ==
  [][/\ clicked' = "retake" =>
          /\ state = "result"
          /\ state' = "home"
          /\ role' = <<>>
          /\ answers' = EmptyDict
          /\ mcqs' = None_mcqs
          /\ evaluation' = None_evaluation
     /\ (state # "test" /\ state' = "test") =>
          /\ state = "generating"
          /\ role \in validated
          /\ mcqs = None_mcqs
          /\ ~generated
          /\ generated'
          /\ reply'.call = "generate"]_vars

\* The retake run has acted.
C4_Witness ==
  /\ state = "home"
  /\ clicked = "retake"
  /\ role = <<>>
  /\ mcqs = None_mcqs
  /\ rendered = "none"

\* C5: when the generation reply parses neither directly nor after slicing
\* from its first "{" to its last "}", the run in generating ends with the
\* exception: the session stays in generating (test is not entered) and the
\* stored question set is not written.
C5_ParseFailurePropagates ==
  [][(/\ state = "generating"
      /\ reply'.call = "generate"
      /\ ~reply'.raises
      /\ ~reply'.direct
      /\ ~reply'.sliced)
     => /\ rendered' = "exception"
        /\ state' = "generating"
        /\ mcqs' = mcqs
        /\ mcqs' = None_mcqs]_vars

\* A reply that parses neither way has been received in generating.
C5_Witness ==
  /\ state = "generating"
  /\ reply.call = "generate"
  /\ ~reply.raises
  /\ ~reply.direct
  /\ ~reply.sliced
  /\ rendered = "exception"

\* C6: when the validator's external call raises, or its reply contains no
\* parseable {...} object, is_valid_role returns False without raising, and
\* the session stays in home with the invalid-role error shown.
C6_ValidatorFailsClosed ==
  (reply.call = "validate" /\ (reply.raises \/ ~reply.has_object))
  => /\ valid_ret = "False"
     /\ state = "home"
     /\ rendered = "role_form_error"
     /\ role = <<>>

\* The validator has been called and its reply held no parseable object.
C6_Witness ==
  /\ reply.call = "validate"
  /\ ~reply.raises
  /\ ~reply.has_object
  /\ valid_ret = "False"
  /\ state = "home"

(***************************************************************************)
(* Properties of the scorer (checked under SpecEval).                      *)
(***************************************************************************)
AllQs == mcqs.domain \o mcqs.communication

Positions == 0..(Len(AllQs) - 1)

\* Position i of the answer map holds a selection.
SelectedAt(i) == Key(i) \in DOMAIN answers /\ answers[Key(i)] # NoneV

NothingSelected == \A i \in Positions : ~SelectedAt(i)

TenTen == Len(mcqs.domain) = n_domain /\ Len(mcqs.communication) = n_comm

NoAttemptResult ==
  /\ evaluation.scores = [technical |-> 0, communication |-> 0, total |-> 0]
  /\ evaluation.summary = NoAttemptSummary
  /\ evaluation.strengths = NoAttemptStrengths
  /\ evaluation.improvements = NoAttemptImprovements

LowText ==
  evaluation.strengths = LowStrengths /\ evaluation.improvements = LowImprovements

MediumText ==
  /\ evaluation.strengths = MediumStrengths
  /\ evaluation.improvements = MediumImprovements

HighText ==
  evaluation.strengths = HighStrengths /\ evaluation.improvements = HighImprovements

\* C7: for every question set, whatever its stored correct indices, and
\* every answer map without a selection (no entry, or None entries), the
\* result has technical = 0, communication = 0, total = 0 and the
\* no-attempts summary.
C7_NoSelectionScoresZero ==
  (state = "result" /\ NothingSelected) => NoAttemptResult

\* A 10/10 set whose stored correct indices are null has been scored against
\* an answer map without a selection.
C7_Witness ==
  /\ state = "result"
  /\ TenTen
  /\ NothingSelected
  /\ \A i \in Positions : AllQs[i + 1].answer = NoneV
  /\ DOMAIN answers # {}

\* C8: for a 10/10 question set and an answer map whose selection at each
\* position 0..19 is the question's stored correct index, the result is
\* technical = 10, communication = 10, total = 20 with the high-score text.
C8_AllCorrectScoresTwenty ==
  (/\ state = "result"
   /\ TenTen
   /\ \A i \in Positions : SelectedAt(i) /\ answers[Key(i)] = AllQs[i + 1].answer)
  => /\ evaluation.scores = [technical |-> 10, communication |-> 10, total |-> 20]
     /\ HighText

\* All 20 positions of a 10/10 set were answered with the stored index.
C8_Witness ==
  /\ state = "result"
  /\ TenTen
  /\ \A i \in Positions : SelectedAt(i) /\ answers[Key(i)] = AllQs[i + 1].answer
  /\ \E i, j \in Positions : answers[Key(i)] # answers[Key(j)]

\* C9: the returned scores satisfy total = technical + communication,
\* 0 <= technical <= number of domain questions and
\* 0 <= communication <= number of communication questions.
C9_ScoresBounded ==
  state = "result" =>
    /\ evaluation.scores.total
         = evaluation.scores.technical + evaluation.scores.communication
    /\ 0 <= evaluation.scores.technical
    /\ evaluation.scores.technical <= Len(mcqs.domain)
    /\ 0 <= evaluation.scores.communication
    /\ evaluation.scores.communication <= Len(mcqs.communication)

\* Both sections of a set that is not 10/10 were scored at their maximum.
C9_Witness ==
  /\ state = "result"
  /\ ~TenTen
  /\ Len(mcqs.domain) > 0
  /\ Len(mcqs.communication) > 0
  /\ evaluation.scores.technical = Len(mcqs.domain)
  /\ evaluation.scores.communication = Len(mcqs.communication)

\* C10: for a 10/10 set exactly one feedback case is chosen: the no-attempts
\* result if and only if nothing was selected; otherwise the low-score text
\* exactly when total is in 0..5, the medium-score text exactly when total is
\* in 6..14 and the high-score text exactly when total is in 15..20.  With
\* all 20 positions answered wrongly the total is 0 with the low-score text.
C10_FeedbackTiers ==
  (state = "result" /\ TenTen) =>
    LET total == evaluation.scores.total IN
    /\ NothingSelected <=> evaluation.summary = NoAttemptSummary
    /\ NothingSelected => NoAttemptResult
    /\ ~NothingSelected =>
         /\ total \in 0..20
         /\ evaluation.summary
              = Summary(total, evaluation.scores.technical,
                        evaluation.scores.communication)
         /\ LowText <=> total \in 0..5
         /\ MediumText <=> total \in 6..14
         /\ HighText <=> total \in 15..20
    /\ (\A i \in Positions : SelectedAt(i) /\ answers[Key(i)] # AllQs[i + 1].answer)
         => (total = 0 /\ LowText /\ evaluation.summary # NoAttemptSummary)

\* All 20 positions of a 10/10 set were answered, each with a wrong option.
C10_Witness ==
  /\ state = "result"
  /\ TenTen
  /\ \A i \in Positions : SelectedAt(i) /\ answers[Key(i)] # AllQs[i + 1].answer
  /\ evaluation.scores.total = 0
  /\ LowText

(***************************************************************************)
(* Unanswered positions and the shape of the generated set.                *)
(***************************************************************************)
DomainPositions == {i \in Positions : i < Len(mcqs.domain)}

CommPositions == {i \in Positions : i >= Len(mcqs.domain)}

\* Position i holds a selection and it is the question's stored index.
CorrectAt(i) == SelectedAt(i) /\ answers[Key(i)] = AllQs[i + 1].answer

\* C11: an unanswered position (no entry, or None) never counts as correct,
\* whatever the question stores as its correct index: each returned section
\* score counts only answered positions, so it never exceeds the number of
\* answered positions of the section.
C11_UnansweredNeverCorrect ==
  state = "result" =>
    /\ evaluation.scores.technical
         <= Cardinality({i \in DomainPositions : CorrectAt(i)})
    /\ evaluation.scores.communication
         <= Cardinality({i \in CommPositions : CorrectAt(i)})
    /\ evaluation.scores.technical
         <= Cardinality({i \in DomainPositions : SelectedAt(i)})
    /\ evaluation.scores.communication
         <= Cardinality({i \in CommPositions : SelectedAt(i)})

\* C12: in test, evaluating and result the stored question set has exactly
\* 10 domain and exactly 10 communication questions.
C12_TenPlusTenQuestions ==
  state \in {"test", "evaluating", "result"} => TenTen

\* C13: is_valid_role returns a boolean, and home -> generating is taken
\* only when the "valid" field of the reply's object is the boolean true.
C13_AcceptedOnlyOnBooleanTrue ==
  /\ reply.call = "validate" => valid_ret \in {"True", "False"}
  /\ (state = "generating" /\ clicked = "start") => valid_ret = "True"

\* C14: for an answer map with at least one selection, technical is the
\* number of positions i < len(domain) whose selection is question i's stored
\* correct index, and communication is the number of such positions from
\* len(domain) on, positions being those of domain followed by communication.
C14_SectionScoresCountMatches ==
  (state = "result" /\ ~NothingSelected) =>
    /\ evaluation.scores.technical
         = Cardinality({i \in DomainPositions : CorrectAt(i)})
    /\ evaluation.scores.communication
         = Cardinality({i \in CommPositions : CorrectAt(i)})

(***************************************************************************)
(* Who writes the evaluation, the question set and the answer map.         *)
(***************************************************************************)
\* C15: the evaluation result is written once per attempt, by the step
\* evaluating -> result (from absent to the scorer's result); while the
\* session stays in result it does not change; only the retake run clears it.
C15_EvaluationWrittenOnce ==
  [][/\ evaluation' # evaluation =>
          \/ /\ state = "evaluating"
             /\ state' = "result"
             /\ evaluation = None_evaluation
          \/ /\ state = "result"
             /\ clicked' = "retake"
             /\ evaluation' = None_evaluation
     /\ (state = "evaluating" /\ state' = "result") =>
          /\ evaluation = None_evaluation
          /\ evaluation'.kind = "dict"
     /\ (state = "result" /\ state' = "result") => evaluation' = evaluation]_vars

\* The result page has been rendered again with a non-zero result stored.
C15_Witness ==
  /\ state = "result"
  /\ rendered = "result"
  /\ evaluation.kind = "dict"
  /\ evaluation.scores.total > 0

\* C16: the stored question set is written only by the step generating ->
\* test and by the retake reset; no step taken in test, evaluating or result
\* changes it, and the scorer's result is computed from that stored set.
C16_QuestionSetWrittenOnce ==
  [][/\ mcqs' # mcqs =>
          \/ state = "generating" /\ state' = "test"
          \/ /\ state = "result"
             /\ clicked' = "retake"
             /\ mcqs' = None_mcqs
     /\ (state \in {"test", "evaluating"} \/ (state = "result" /\ state' = "result"))
          => mcqs' = mcqs
     /\ (state = "evaluating" /\ state' = "result") =>
          evaluation' =
            evaluate_answers(role, mcqs'.domain, mcqs'.communication, answers').result]_vars

\* A generated, non-empty question set has been shown, scored and is still
\* stored in result.
C16_Witness ==
  /\ state = "result"
  /\ mcqs.kind = "dict"
  /\ Len(mcqs.domain) > 0
  /\ Len(mcqs.communication) > 0
  /\ evaluation.kind = "dict"

\* C17: the answer map changes only in steps taken in test, and by the
\* retake reset, which empties it; when the scorer reads it (evaluating, and
\* unchanged in result) it has exactly one entry per position of the stored
\* question set, each an option index 0..3 or None.
C17_AnswerMapWrittenInTest ==
  /\ [](state \in {"evaluating", "result"} =>
          /\ DOMAIN answers = {Key(i) : i \in Positions}
          /\ \A k \in DOMAIN answers : answers[k] \in {NoneV} \cup 0..(NumOptions - 1))
  /\ [][answers' # answers =>
          \/ state = "test"
          \/ /\ state = "result"
             /\ clicked' = "retake"
             /\ answers' = EmptyDict]_vars

\* The scorer is about to read a map with an answered and an unanswered position.
C17_Witness ==
  /\ state = "evaluating"
  /\ \E i, j \in Positions : SelectedAt(i) /\ answers[Key(j)] = NoneV

(***************************************************************************)
(* Progress of a session and consistency of its data.                      *)
(***************************************************************************)
\* A run of the test page that raised raises again on every later run: the
\* stored question set does not change in test, and no button was rendered.
TestExceptionIsTrap ==
  [][(state = "test" /\ rendered = "exception") =>
        (state' = "test" /\ rendered' = "exception")]_vars

\* C18: no session state is terminal: once a run has ended (a page or an
\* exception is shown) some step that changes the page state is possible;
\* in result the retake step is possible and leads to home.
C18_NoTerminalState ==
  /\ rendered # "none" => ENABLED (Next /\ state' # state)
  /\ (state = "result" /\ rendered = "result") => ENABLED (Retake /\ state' = "home")

C20_DataConsistentWithState ==
  /\ state = "home" =>
        /\ role = <<>>
        /\ mcqs = None_mcqs
        /\ answers = EmptyDict
        /\ evaluation = None_evaluation
  /\ state \in {"generating", "test", "evaluating", "result"} => role # <<>>
  /\ state \in {"test", "evaluating", "result"} => mcqs.kind # "None"
  /\ state = "result" <=> evaluation # None_evaluation

====
